---- MODULE Spec2Model ----
(***************************************************************************)
(* Model of sphinxcontrib.typst_math (src/sphinxcontrib/typst_math/        *)
(* __init__.py): the TypstMathDirective.run method, run by the parallel    *)
(* build workers that setup() allows, the file system they share and the   *)
(* typst subprocess each call starts.                                      *)
(*                                                                         *)
(* Text the code computes with (documents, file names, paths) is a         *)
(* sequence of byte values, the UTF-8 encoding of the Python str; text the *)
(* code only compares or passes on (the builder format, argv words, node   *)
(* attributes) is a TLA+ string.                                           *)
(***************************************************************************)
EXTENDS Integers, Sequences, FiniteSets, TLC

(***************************************************************************)
(* Bounds of the model.                                                    *)
(***************************************************************************)
\* Calls of run() started by the workers together, in one build.
MaxCalls == 2

(***************************************************************************)
(* Byte strings.                                                           *)
(***************************************************************************)
\* The directive bodies (self.content, a list of lines) the workers are
\* called with: ["x+y"], ["x + y"] and ["x+y", "x + y"].
Contents ==
    { << << 120, 43, 121 >> >>,
      << << 120, 32, 43, 32, 121 >> >>,
      << << 120, 43, 121 >>, << 120, 32, 43, 32, 121 >> >> }

\* "#set page(width: auto, height: auto, margin: 3.14pt)\n\n$ "
Preamble ==
    << 35, 115, 101, 116, 32, 112, 97, 103, 101, 40, 119, 105, 100, 116, 104,
       58, 32, 97, 117, 116, 111, 44, 32, 104, 101, 105, 103, 104, 116, 58,
       32, 97, 117, 116, 111, 44, 32, 109, 97, 114, 103, 105, 110, 58, 32,
       51, 46, 49, 52, 112, 116, 41, 10, 10, 36, 32 >>

\* " $"
Closing == << 32, 36 >>

\* "\n"
Newline == << 10 >>

\* sep.join(parts)
Join(sep, parts) ==
    LET joined[n \in 0..Len(parts)] ==
            IF n = 0 THEN <<>>
            ELSE IF n = 1 THEN parts[1]
            ELSE joined[n - 1] \o sep \o parts[n]
    IN  joined[Len(parts)]

\* f"#set page(...)\n\n$ {'\n'.join(self.content)} $"
TypstDoc(body) == Preamble \o Join(Newline, body) \o Closing

(***************************************************************************)
(* hashlib.sha1(...).hexdigest(), on words kept as <<high 16 bits, low 16  *)
(* bits>> so that no intermediate value leaves the 32-bit integers.        *)
(***************************************************************************)
NibbleAnd ==
    [ a \in 0..15 |-> [ b \in 0..15 |->
        ((a % 2) * (b % 2))
        + 2 * (((a \div 2) % 2) * ((b \div 2) % 2))
        + 4 * (((a \div 4) % 2) * ((b \div 4) % 2))
        + 8 * ((a \div 8) * (b \div 8)) ] ]

And16(a, b) ==
    NibbleAnd[a % 16][b % 16]
    + 16 * NibbleAnd[(a \div 16) % 16][(b \div 16) % 16]
    + 256 * NibbleAnd[(a \div 256) % 16][(b \div 256) % 16]
    + 4096 * NibbleAnd[a \div 4096][b \div 4096]

Xor16(a, b) == a + b - 2 * And16(a, b)

Or16(a, b) == a + b - And16(a, b)

WAnd(x, y) == << And16(x[1], y[1]), And16(x[2], y[2]) >>

WOr(x, y) == << Or16(x[1], y[1]), Or16(x[2], y[2]) >>

WXor(x, y) == << Xor16(x[1], y[1]), Xor16(x[2], y[2]) >>

WNot(x) == << 65535 - x[1], 65535 - x[2] >>

\* Addition modulo 2^32.
WAdd(x, y) ==
    LET lo == x[2] + y[2]
    IN  << (x[1] + y[1] + (lo \div 65536)) % 65536, lo % 65536 >>

\* Rotation to the left by n bits, 1 <= n <= 15.
Rotl(x, n) ==
    << ((x[1] * 2^n) % 65536) + (x[2] \div 2^(16 - n)),
       ((x[2] * 2^n) % 65536) + (x[1] \div 2^(16 - n)) >>

\* Rotation to the left by 30 bits: by 16 (the halves swapped), then by 14.
Rotl30(x) == Rotl(<< x[2], x[1] >>, 14)

Zeros(n) == [ i \in 1..n |-> 0 ]

\* The message padded to whole 64-byte blocks: 0x80, zeros, the bit length
\* as a 64-bit big-endian number (messages here are far below 2^28 bytes).
Sha1Pad(m) ==
    LET bits == 8 * Len(m)
    IN  m \o << 128 >> \o Zeros((119 - Len(m)) % 64)
          \o << 0, 0, 0, 0,
                (bits \div 16777216) % 256, (bits \div 65536) % 256,
                (bits \div 256) % 256, bits % 256 >>

\* The 16 big-endian words of block number k (from 0) of the padded message.
BlockWords(p, k) ==
    [ i \in 1..16 |->
        LET o == 64 * k + 4 * (i - 1)
        IN  << p[o + 1] * 256 + p[o + 2], p[o + 3] * 256 + p[o + 4] >> ]

\* The message schedule so far, w, extended by its next 16 words.
Extend16(w) ==
    IF Len(w) >= 80 THEN w
    ELSE LET extended[n \in 0..16] ==
                 IF n = 0 THEN w
                 ELSE LET v == extended[n - 1]
                          t == Len(v) + 1
                      IN  Append(v, Rotl(WXor(WXor(v[t - 3], v[t - 8]),
                                              WXor(v[t - 14], v[t - 16])), 1))
         IN  extended[16]

\* The message schedule: the block's 16 words extended to 80.
Schedule(block) == Extend16(Extend16(Extend16(Extend16(block))))

RoundF(t, b, c, d) ==
    IF t <= 20 THEN WOr(WAnd(b, c), WAnd(WNot(b), d))
    ELSE IF t <= 40 THEN WXor(WXor(b, c), d)
    ELSE IF t <= 60 THEN WOr(WOr(WAnd(b, c), WAnd(b, d)), WAnd(c, d))
    ELSE WXor(WXor(b, c), d)

\* 0x5A827999, 0x6ED9EBA1, 0x8F1BBCDC, 0xCA62C1D6
RoundK(t) ==
    IF t <= 20 THEN << 23170, 31129 >>
    ELSE IF t <= 40 THEN << 28377, 60321 >>
    ELSE IF t <= 60 THEN << 36635, 48348 >>
    ELSE << 51810, 49622 >>

\* The next 20 rounds on s = <<e, d, c, b, a, t>>: the working state and the
\* number t of rounds done.
Rounds20(s, w) ==
    IF s[6] >= 80 THEN s
    ELSE LET after[n \in 0..20] ==
                 IF n = 0 THEN s
                 ELSE LET r == after[n - 1]
                          t == r[6] + 1
                          temp ==
                              WAdd(WAdd(WAdd(WAdd(Rotl(r[5], 5),
                                                  RoundF(t, r[4], r[3], r[2])),
                                             r[1]),
                                        RoundK(t)),
                                   w[t])
                      IN  << r[2], r[3], Rotl30(r[4]), r[5], temp, t >>
         IN  after[20]

\* The working state <<e, d, c, b, a, 80>> after the 80 rounds, from the
\* chaining value h.
Rounds(h, w) ==
    Rounds20(Rounds20(Rounds20(Rounds20(
        << h[5], h[4], h[3], h[2], h[1], 0 >>, w), w), w), w)

\* 0x67452301, 0xEFCDAB89, 0x98BADCFE, 0x10325476, 0xC3D2E1F0
Sha1Init ==
    << << 26437, 8961 >>, << 61389, 43913 >>, << 39098, 56574 >>,
       << 4146, 21622 >>, << 50130, 57840 >> >>

\* The chaining value h with the working state s = <<e, d, c, b, a, 80>>
\* added to it, word by word.
Chain(h, s) ==
    << WAdd(h[1], s[5]), WAdd(h[2], s[4]), WAdd(h[3], s[3]),
       WAdd(h[4], s[2]), WAdd(h[5], s[1]) >>

\* One block compressed into the chaining value h.
Compress(h, block) == Chain(h, Rounds(h, Schedule(block)))

\* The chaining value after all the blocks of the padded message p.
Sha1Blocks(p) ==
    LET chained[k \in 0..(Len(p) \div 64)] ==
            IF k = 0 THEN Sha1Init
            ELSE Compress(chained[k - 1], BlockWords(p, k - 1))
    IN  chained[Len(p) \div 64]

\* sha1(m).digest(), as five words.
Sha1(m) == Sha1Blocks(Sha1Pad(m))

\* One hexadecimal digit, lower case, as its character code.
HexChar(n) == IF n < 10 THEN 48 + n ELSE 87 + n

Hex16(v) ==
    << HexChar(v \div 4096), HexChar((v \div 256) % 16),
       HexChar((v \div 16) % 16), HexChar(v % 16) >>

\* The five words h in hexadecimal: 40 characters.
HexWords(h) ==
    Hex16(h[1][1]) \o Hex16(h[1][2]) \o Hex16(h[2][1]) \o Hex16(h[2][2])
    \o Hex16(h[3][1]) \o Hex16(h[3][2]) \o Hex16(h[4][1])
    \o Hex16(h[4][2]) \o Hex16(h[5][1]) \o Hex16(h[5][2])

\* sha1(m).hexdigest()
HexDigest(m) == HexWords(Sha1(m))

(***************************************************************************)
(* pathlib.                                                                *)
(***************************************************************************)
\* p / segment, for a relative segment.
PathJoin(p, segment) == p \o << 47 >> \o segment

\* The last place of byte c in s, 0 when there is none: s.rfind(c) + 1.
RFind(s, c) ==
    LET at == { i \in 1..Len(s) : s[i] = c }
    IN  IF at = {} THEN 0 ELSE CHOOSE i \in at : \A j \in at : j <= i

\* PurePath.name: the final component.
PathName(p) == SubSeq(p, RFind(p, 47) + 1, Len(p))

\* PurePath.suffix: from the last dot of the name, when that dot neither
\* starts nor ends the name.
PathSuffix(p) ==
    LET name == PathName(p)
        i == RFind(name, 46)
    IN  IF 1 < i /\ i < Len(name) THEN SubSeq(name, i, Len(name)) ELSE <<>>

\* PurePath.with_suffix(suffix): the old suffix, if any, replaced.
WithSuffix(p, suffix) ==
    SubSeq(p, 1, Len(p) - Len(PathSuffix(p))) \o suffix

(***************************************************************************)
(* The build: its configuration and its directories.                       *)
(***************************************************************************)
\* The parallel workers ("parallel_read_safe": True), each its own process.
Workers == { 1, 2 }

\* Python's None.
None == "None"

\* "/usr/bin/typst": what shutil.which returns when it finds the compiler.
TypstPath == "/usr/bin/typst"

\* Values of app.builder.format, the last one known to no builder.
Formats == { "html", "pdf", "latex", "bogus" }

\* "/out": app.builder.outdir, an absolute path that exists.
OutDir == << 47, 111, 117, 116 >>

\* Path(outdir) / "assets"
AssetsDir == PathJoin(OutDir, << 97, 115, 115, 101, 116, 115 >>)

\* Path(outdir) / "assets" / "typst_math"
TmpDir ==
    PathJoin(AssetsDir, << 116, 121, 112, 115, 116, 95, 109, 97, 116, 104 >>)

\* The templated documents of the directive bodies.
Docs == { TypstDoc(c) : c \in Contents }

\* sha1(typst_doc.encode(), usedforsecurity=False).hexdigest() of each, as
\* the set of pairs <<document, digest>>.
Sha1Table == { << d, HexDigest(d) >> : d \in Docs }

Sha1Hex(d) == (CHOOSE p \in Sha1Table : p[1] = d)[2]

(***************************************************************************)
(* State.                                                                  *)
(***************************************************************************)
VARIABLES
    format,       \* self.env.app.builder.format
    whichResult,  \* what shutil.which(config.typst_math_typst) finds
    dirs,         \* the directories that exist below outdir
    files,        \* the files that exist: path -> times it has been written
    pc,           \* per worker: the statement of run() it is about to execute
    content,      \* per worker: self.content of the directive being run
    typst,        \* per worker: local typst
    typst_doc,    \* per worker: local typst_doc
    filepath,     \* per worker: local filepath
    command,      \* per worker: local command
    proc,         \* per worker: the subprocess of the current call
    result,       \* per worker: the list run() returned
    err,          \* per worker: the exception that ended the call
    made,         \* per worker: what the current call's mkdir created:
                  \* "", "dir" (tmpdir) or "parents" (its parents too)
    calls,        \* calls of run() started
    spawned,      \* subprocesses started
    returned,     \* calls of run() that returned
    prev          \* per worker: its call before, if that returned: the
                  \* document and the target path of that call

vars ==
    << format, whichResult, dirs, files, pc, content, typst, typst_doc,
       filepath, command, proc, result, err, made, calls, spawned, returned,
       prev >>

config == << format, whichResult >>

counters == << calls, spawned, returned >>

locals == << content, typst, typst_doc, filepath, command >>

\* No subprocess: proc before subprocess.Popen.
NoProc ==
    [ state |-> "none", argv |-> <<>>, cwd |-> <<>>, stdin |-> <<>>,
      closed |-> FALSE, broken |-> FALSE, read |-> <<>>, rc |-> 0 ]

\* No call before, or one that did not return.
NoCall == [ doc |-> <<>>, target |-> <<>> ]

Init ==
    /\ format \in Formats
    /\ whichResult \in { None, TypstPath }
    /\ dirs \in { {}, { AssetsDir }, { AssetsDir, TmpDir } }
    /\ files = << >>
    /\ pc = [ w \in Workers |-> "idle" ]
    /\ content = [ w \in Workers |-> <<>> ]
    /\ typst = [ w \in Workers |-> None ]
    /\ typst_doc = [ w \in Workers |-> <<>> ]
    /\ filepath = [ w \in Workers |-> <<>> ]
    /\ command = [ w \in Workers |-> <<>> ]
    /\ proc = [ w \in Workers |-> NoProc ]
    /\ result = [ w \in Workers |-> <<>> ]
    /\ err = [ w \in Workers |-> "" ]
    /\ made = [ w \in Workers |-> "" ]
    /\ calls = 0
    /\ spawned = 0
    /\ returned = 0
    /\ prev = [ w \in Workers |-> NoCall ]

\* The call raises: the exception leaves run() and the worker's build stops.
Raise(w, exception) ==
    /\ pc' = [ pc EXCEPT ![w] = "error" ]
    /\ err' = [ err EXCEPT ![w] = exception ]

Goto(w, label) ==
    /\ pc' = [ pc EXCEPT ![w] = label ]
    /\ UNCHANGED err

(***************************************************************************)
(* TypstMathDirective.run, statement by statement.                         *)
(***************************************************************************)
\* The host calls run() on a directive with body c, and run() starts:
\*   typst = shutil.which(self.config.typst_math_typst)
\*   typst_doc = f"#set page(...)\n\n$ {'\n'.join(self.content)} $"
Call(w, c) ==
    /\ pc[w] \in { "idle", "done" }
    /\ calls < MaxCalls
    /\ calls' = calls + 1
    /\ content' = [ content EXCEPT ![w] = c ]
    /\ typst' = [ typst EXCEPT ![w] = whichResult ]
    /\ typst_doc' = [ typst_doc EXCEPT ![w] = TypstDoc(c) ]
    /\ filepath' = [ filepath EXCEPT ![w] = <<>> ]
    /\ command' = [ command EXCEPT ![w] = <<>> ]
    /\ proc' = [ proc EXCEPT ![w] = NoProc ]
    /\ result' = [ result EXCEPT ![w] = <<>> ]
    /\ made' = [ made EXCEPT ![w] = "" ]
    /\ prev' = [ prev EXCEPT ![w] =
           IF pc[w] = "done"
           THEN [ doc |-> typst_doc[w], target |-> command[w][4] ]
           ELSE NoCall ]
    /\ Goto(w, "exists")
    /\ UNCHANGED << config, dirs, files, spawned, returned >>

\* if not tmpdir.exists():
Exists(w) ==
    /\ pc[w] = "exists"
    /\ Goto(w, IF TmpDir \in dirs THEN "popen" ELSE "mkdir")
    /\ UNCHANGED << config, dirs, files, locals, proc, result, made,
                    counters, prev >>

\* A variant of Mkdir, for comparison:
\* tmpdir.mkdir(), without parents=True.
MkdirNoParents(w) ==
    /\ pc[w] = "mkdir"
    /\ IF TmpDir \in dirs
       THEN Raise(w, "FileExistsError") /\ UNCHANGED << dirs, made >>
       ELSE IF AssetsDir \notin dirs
       THEN Raise(w, "FileNotFoundError") /\ UNCHANGED << dirs, made >>
       ELSE /\ dirs' = dirs \cup { TmpDir }
            /\ made' = [ made EXCEPT ![w] = "dir" ]
            /\ Goto(w, "popen")
    /\ UNCHANGED << config, files, locals, proc, result, counters, prev >>

\* tmpdir.mkdir(parents=True), first os.mkdir(tmpdir): it raises
\* FileExistsError when the directory exists by now (exist_ok is False),
\* and, the parent missing, goes on to create the parents.
Mkdir(w) ==
    /\ pc[w] = "mkdir"
    /\ IF TmpDir \in dirs
       THEN Raise(w, "FileExistsError") /\ UNCHANGED << dirs, made >>
       ELSE IF AssetsDir \notin dirs
       THEN Goto(w, "mkparents") /\ UNCHANGED << dirs, made >>
       ELSE /\ dirs' = dirs \cup { TmpDir }
            /\ made' = [ made EXCEPT ![w] = "dir" ]
            /\ Goto(w, "popen")
    /\ UNCHANGED << config, files, locals, proc, result, counters, prev >>

\* tmpdir.mkdir(parents=True): self.parent.mkdir(parents=True, exist_ok=True)
MkdirParents(w) ==
    /\ pc[w] = "mkparents"
    /\ dirs' = dirs \cup { AssetsDir }
    /\ Goto(w, "mkdir2")
    /\ UNCHANGED << config, files, locals, proc, result, made, counters,
                    prev >>

\* tmpdir.mkdir(parents=True): self.mkdir(mode, parents=False,
\* exist_ok=exist_ok), the second os.mkdir(tmpdir).
MkdirRetry(w) ==
    /\ pc[w] = "mkdir2"
    /\ IF TmpDir \in dirs
       THEN Raise(w, "FileExistsError") /\ UNCHANGED << dirs, made >>
       ELSE /\ dirs' = dirs \cup { TmpDir }
            /\ made' = [ made EXCEPT ![w] = "parents" ]
            /\ Goto(w, "popen")
    /\ UNCHANGED << config, files, locals, proc, result, counters, prev >>

\* A variant of FilenameOf, for comparison:
\* the digest of the first line's document only.
FilenameOfFirstLine(w) == Sha1Hex(TypstDoc(<< content[w][1] >>))

\* filename = f"{sha1(typst_doc.encode(), usedforsecurity=False).hexdigest()}"
FilenameOf(w) == Sha1Hex(typst_doc[w])

\* A variant of TargetSuffix, for comparison:
\* the pdf branch missing.
TargetSuffixNoPdf(fmt) ==
    IF fmt = "html" THEN << 46, 115, 118, 103 >>
    ELSE << 46, 112, 110, 103 >>

\* The if / elif / else on builder.format: ".svg", ".pdf" or ".png".
TargetSuffix(fmt) ==
    IF fmt = "html" THEN << 46, 115, 118, 103 >>
    ELSE IF fmt = "pdf" THEN << 46, 112, 100, 102 >>
    ELSE << 46, 112, 110, 103 >>

\* filepath = tmpdir / filename
FilePath(w) == PathJoin(TmpDir, FilenameOf(w))

\* command = [typst, "compile", "-"], and the target path appended: the
\* file path with the suffix the builder format selects.
Command(w, path) ==
    << typst[w], "compile", "-", WithSuffix(path, TargetSuffix(format)) >>

\* The child process subprocess.Popen(cmd, cwd=dir, stdin=PIPE) starts.
Child(cmd, dir) ==
    [ NoProc EXCEPT !.state = "running", !.argv = cmd, !.cwd = dir ]

\* A variant of PopenWith, for comparison:
\* the process is started whatever command[0] is, as a
\* command line handed to a shell would be.
PopenUnchecked(w, path, cmd) ==
    /\ filepath' = [ filepath EXCEPT ![w] = path ]
    /\ command' = [ command EXCEPT ![w] = cmd ]
    /\ IF TmpDir \notin dirs
       THEN Raise(w, "FileNotFoundError") /\ UNCHANGED << proc, spawned >>
       ELSE /\ proc' = [ proc EXCEPT ![w] = Child(cmd, TmpDir) ]
            /\ spawned' = spawned + 1
            /\ Goto(w, "communicate")

\* A variant of PopenWith, for comparison:
\* the compiler is skipped when its output file exists.
PopenIfAbsent(w, path, cmd) ==
    /\ filepath' = [ filepath EXCEPT ![w] = path ]
    /\ command' = [ command EXCEPT ![w] = cmd ]
    /\ IF cmd[1] = None
       THEN Raise(w, "TypeError") /\ UNCHANGED << proc, spawned >>
       ELSE IF TmpDir \notin dirs
       THEN Raise(w, "FileNotFoundError") /\ UNCHANGED << proc, spawned >>
       ELSE IF cmd[4] \in DOMAIN files
       THEN /\ proc' = [ proc EXCEPT ![w] =
                  [ NoProc EXCEPT !.state = "exited" ] ]
            /\ Goto(w, "wait")
            /\ UNCHANGED spawned
       ELSE /\ proc' = [ proc EXCEPT ![w] = Child(cmd, TmpDir) ]
            /\ spawned' = spawned + 1
            /\ Goto(w, "communicate")

\* filepath and command are set, and then
\*   proc = subprocess.Popen(command, cwd=tmpdir, stdin=subprocess.PIPE)
\* raises TypeError for a command[0] of None (on encoding the arguments,
\* before any process is created) and FileNotFoundError for a cwd that does
\* not exist, or starts the child process, its stdin a pipe.
PopenWith(w, path, cmd) ==
    /\ filepath' = [ filepath EXCEPT ![w] = path ]
    /\ command' = [ command EXCEPT ![w] = cmd ]
    /\ IF cmd[1] = None
       THEN Raise(w, "TypeError") /\ UNCHANGED << proc, spawned >>
       ELSE IF TmpDir \notin dirs
       THEN Raise(w, "FileNotFoundError") /\ UNCHANGED << proc, spawned >>
       ELSE /\ proc' = [ proc EXCEPT ![w] = Child(cmd, TmpDir) ]
            /\ spawned' = spawned + 1
            /\ Goto(w, "communicate")

\* Lines 59 to 72 of run(): the digest, the file path, the command, Popen.
PopenAt(w, path) == PopenWith(w, path, Command(w, path))

Popen(w) ==
    /\ pc[w] = "popen"
    /\ PopenAt(w, FilePath(w))
    /\ UNCHANGED << config, dirs, files, content, typst, typst_doc, result,
                    made, calls, returned, prev >>

\* proc.communicate(typst_doc.encode()), the write: the whole input goes to
\* the child's stdin, which is then closed; BrokenPipeError (the child has
\* exited and nobody reads the pipe) is ignored.
CommunicateWrite(w) ==
    /\ pc[w] = "communicate"
    /\ proc' = [ proc EXCEPT ![w] =
           IF proc[w].state = "exited"
           THEN [ @ EXCEPT !.broken = TRUE, !.closed = TRUE ]
           ELSE [ @ EXCEPT !.stdin = typst_doc[w], !.closed = TRUE ] ]
    /\ Goto(w, "wait")
    /\ UNCHANGED << config, dirs, files, locals, result, made, counters,
                    prev >>

\* A variant of ImageUri, for comparison:
\* the extension of the html build, not the wildcard.
ImageUriSvg(path) == WithSuffix(path, << 46, 115, 118, 103 >>)

\* str(filepath.with_suffix(".*"))
ImageUri(path) == WithSuffix(path, << 46, 42 >>)

\* img_node: the uri, the classes and the alignment it is given.
ImageNode(path) ==
    [ uri |-> ImageUri(path), classes |-> << "typst-math" >>,
      align |-> "center" ]

\* The rest of run(), once communicate() is over: return [img_node].
Return(w) ==
    /\ result' = [ result EXCEPT ![w] = << ImageNode(filepath[w]) >> ]
    /\ returned' = returned + 1
    /\ Goto(w, "done")

\* A variant of Wait, for comparison:
\* the process is polled, not waited for.
WaitNoBlock(w) ==
    /\ pc[w] = "wait"
    /\ Return(w)
    /\ UNCHANGED << config, dirs, files, locals, proc, made, calls, spawned,
                    prev >>

\* A variant of Wait, for comparison:
\* a non-zero exit status raises, as with check=True.
WaitChecked(w) ==
    /\ pc[w] = "wait"
    /\ proc[w].state = "exited"
    /\ IF proc[w].rc # 0
       THEN Raise(w, "CalledProcessError") /\ UNCHANGED << result, returned >>
       ELSE Return(w)
    /\ UNCHANGED << config, dirs, files, locals, proc, made, calls, spawned,
                    prev >>

\* proc.communicate(...), the wait: it is over once the child has exited,
\* whatever the exit status; the image node is then built and returned.
Wait(w) ==
    /\ pc[w] = "wait"
    /\ proc[w].state = "exited"
    /\ Return(w)
    /\ UNCHANGED << config, dirs, files, locals, proc, made, calls, spawned,
                    prev >>

(***************************************************************************)
(* The compiler process, as the code sees it: it may read its stdin, and   *)
(* it exits at a time and with a status of its own, having written its     *)
(* output file or not.                                                     *)
(***************************************************************************)
\* The child reads what the pipe holds.
ChildRead(w) ==
    /\ proc[w].state = "running"
    /\ proc[w].stdin # <<>>
    /\ proc[w].read = <<>>
    /\ proc' = [ proc EXCEPT ![w].read = proc[w].stdin ]
    /\ UNCHANGED << config, dirs, files, pc, err, locals, result, made,
                    counters, prev >>

\* The file at path written anew.
WriteFile(path) ==
    IF path \in DOMAIN files
    THEN [ files EXCEPT ![path] = @ + 1 ]
    ELSE files @@ (path :> 1)

\* The child exits: with status 0 and its output file (argv[3]) written,
\* or with status 1 and nothing written.
ChildExit(w, ok) ==
    /\ proc[w].state = "running"
    /\ proc' = [ proc EXCEPT ![w].state = "exited",
                             ![w].rc = IF ok THEN 0 ELSE 1 ]
    /\ files' = IF ok THEN WriteFile(proc[w].argv[4]) ELSE files
    /\ UNCHANGED << config, dirs, pc, err, locals, result, made, counters,
                    prev >>

Next ==
    \E w \in Workers :
        \/ \E c \in Contents : Call(w, c)
        \/ Exists(w)
        \/ Mkdir(w)
        \/ MkdirParents(w)
        \/ MkdirRetry(w)
        \/ Popen(w)
        \/ CommunicateWrite(w)
        \/ Wait(w)
        \/ ChildRead(w)
        \/ \E ok \in BOOLEAN : ChildExit(w, ok)

Spec == Init /\ [][Next]_vars

(***************************************************************************)
(* Properties.                                                             *)
(***************************************************************************)
\* s ends with suffix.
EndsWith(s, suffix) ==
    /\ Len(s) >= Len(suffix)
    /\ SubSeq(s, Len(s) - Len(suffix) + 1, Len(s)) = suffix

\* s without its last n bytes.
DropLast(s, n) == SubSeq(s, 1, Len(s) - n)

DotSvg == << 46, 115, 118, 103 >>

DotPdf == << 46, 112, 100, 102 >>

DotPng == << 46, 112, 110, 103 >>

DotStar == << 46, 42 >>

\* The calls that have got past subprocess.Popen.
PastPopen(w) == pc[w] \in { "communicate", "wait", "done" }

\* C1: the output path handed to the compiler ends in .svg for the html
\* format, in .pdf for pdf and in .png for every other format, known to a
\* builder or not, and in exactly one of the three.
C1_ExtensionByFormat ==
    \A w \in Workers :
        command[w] # <<>> =>
            LET target == command[w][4]
            IN  /\ format = "html" => EndsWith(target, DotSvg)
                /\ format = "pdf" => EndsWith(target, DotPdf)
                /\ format \notin { "html", "pdf" } => EndsWith(target, DotPng)
                /\ Cardinality({ e \in { DotSvg, DotPdf, DotPng } :
                                   EndsWith(target, e) }) = 1
                /\ proc[w].state # "none" => proc[w].argv[4] = target

\* C1, its case: a compiler running on a .png path under a format that no
\* builder declares.
C1_Witness ==
    \E w \in Workers :
        /\ format = "bogus"
        /\ proc[w].state = "running"
        /\ EndsWith(proc[w].argv[4], DotPng)

\* The calls on record: each worker's current call once its target path is
\* computed, and its call before.
CallsOnRecord ==
    { [ doc |-> typst_doc[w], target |-> command[w][4] ] :
        w \in { v \in Workers : command[v] # <<>> } }
    \cup { prev[w] : w \in { v \in Workers : prev[v] # NoCall } }

C3_ImageReference ==
    \A w \in Workers :
        IF pc[w] = "done"
        THEN /\ Len(result[w]) = 1
             /\ result[w][1].classes = << "typst-math" >>
             /\ result[w][1].align = "center"
             /\ EndsWith(result[w][1].uri, DotStar)
             /\ DropLast(result[w][1].uri, 2) = DropLast(command[w][4], 4)
             /\ DropLast(result[w][1].uri, 2)
                  = TmpDir \o << 47 >> \o Sha1Hex(typst_doc[w])
        ELSE result[w] = <<>>

\* C3, its case: a call of a pdf build has returned.
C3_Witness ==
    \E w \in Workers :
        /\ pc[w] = "done"
        /\ format = "pdf"
        /\ EndsWith(command[w][4], DotPdf)
        /\ result[w] # <<>>

\* C4: when the compiler name resolves to no executable, no subprocess is
\* ever started, no call gets past Popen or returns a reference, and a call
\* that has ended has ended in an error raised at or before Popen.
C4_NoCompilerNoSubprocess ==
    whichResult = None =>
        /\ spawned = 0
        /\ returned = 0
        /\ \A w \in Workers :
               /\ proc[w].state = "none"
               /\ result[w] = <<>>
               /\ ~ PastPopen(w)
               /\ pc[w] \in { "idle", "exists", "mkdir", "mkparents",
                              "mkdir2", "popen", "error" }
               /\ pc[w] = "error"
                      => err[w] \in { "TypeError", "FileExistsError" }

\* C4, its case: a call ended by the TypeError of Popen.
C4_Witness ==
    \E w \in Workers :
        /\ whichResult = None
        /\ pc[w] = "error"
        /\ err[w] = "TypeError"
        /\ command[w] # <<>>

\* C5: a call reaches Popen only with the cache directory and its parent in
\* place, no call fails for a missing parent, the compiler's working
\* directory exists, and after a call whose compiler wrote its output has
\* returned, the artifact is a file of the cache directory.
C5_CacheDirCreated ==
    \A w \in Workers :
        /\ pc[w] \in { "popen", "communicate", "wait", "done" }
               => { AssetsDir, TmpDir } \subseteq dirs
        /\ proc[w].state # "none" => proc[w].cwd \in dirs
        /\ err[w] # "FileNotFoundError"
        /\ (pc[w] = "done" /\ proc[w].rc = 0) =>
               /\ command[w][4] \in DOMAIN files
               /\ DropLast(command[w][4], 45) = TmpDir

\* C5, its case: a call that found no cache directory, created it with its
\* parent, and returned after its compiler wrote the artifact.
C5_Witness ==
    \E w \in Workers :
        /\ made[w] = "parents"
        /\ pc[w] = "done"
        /\ proc[w].rc = 0
        /\ command[w][4] \in DOMAIN files

\* C6 as stated: a call that has returned has a subprocess that has exited
\* and that has been given the whole templated document on its stdin.
C6_DocumentDelivered ==
    \A w \in Workers :
        pc[w] = "done" =>
            /\ proc[w].state = "exited"
            /\ proc[w].stdin = typst_doc[w]

\* C6, amended: a call that has returned has a subprocess that has exited,
\* and has closed that subprocess's stdin after writing the whole templated
\* document to it, or after finding the pipe broken (the subprocess had
\* exited by then), in which case nothing was delivered.
C6_WaitsForExit ==
    \A w \in Workers :
        pc[w] = "done" =>
            /\ proc[w].state = "exited"
            /\ proc[w].closed
            /\ \/ proc[w].stdin = typst_doc[w] /\ ~ proc[w].broken
               \/ proc[w].stdin = <<>> /\ proc[w].broken
            /\ proc[w].read \in { <<>>, typst_doc[w] }

\* C6, its case: a call returned after its subprocess read the document
\* and exited.
C6_Witness ==
    \E w \in Workers :
        /\ pc[w] = "done"
        /\ proc[w].state = "exited"
        /\ proc[w].read = typst_doc[w]

\* C7: every call past Popen has started one subprocess, with the argv
\* <typst> compile - <target path> and the cache directory as its working
\* directory, so the subprocesses started are as many as the calls past
\* Popen, whether the target file existed or not; with the compiler
\* resolved no call fails in Popen.
C7_UnconditionalCompile ==
    /\ spawned = returned
                   + Cardinality({ w \in Workers :
                                     pc[w] \in { "communicate", "wait" } })
    /\ \A w \in Workers :
           PastPopen(w) =>
               /\ proc[w].state # "none"
               /\ Len(proc[w].argv) = 4
               /\ proc[w].argv[1] = TypstPath
               /\ proc[w].argv[2] = "compile"
               /\ proc[w].argv[3] = "-"
               /\ proc[w].argv[4] = command[w][4]
               /\ proc[w].cwd = TmpDir
    /\ whichResult # None =>
           \A w \in Workers : err[w] \in { "", "FileExistsError" }

\* C7, its case: a compiler running on a target path whose file exists.
C7_Witness ==
    \E w \in Workers :
        /\ proc[w].state = "running"
        /\ proc[w].argv[4] \in DOMAIN files
        /\ spawned = 2

\* C8: the exit of the subprocess, whatever its status, never ends the call
\* in an error, and calls of the same document that have returned have
\* returned the same reference, whatever the exit status of each.
C8_FailedCompileStillReturns ==
    /\ \A w \in Workers :
           proc[w].state = "exited" =>
               /\ PastPopen(w)
               /\ err[w] = ""
               /\ pc[w] = "done" => Len(result[w]) = 1
    /\ \A w \in Workers : \A v \in Workers :
           (pc[w] = "done" /\ pc[v] = "done" /\ typst_doc[w] = typst_doc[v])
               => result[w] = result[v]

\* C8, its case: a call returned its reference after its compiler failed,
\* and no artifact exists at the target path.
C8_Witness ==
    \E w \in Workers :
        /\ pc[w] = "done"
        /\ proc[w].rc = 1
        /\ command[w][4] \notin DOMAIN files
        /\ Len(result[w]) = 1

\* C9 as stated: no worker fails with the "already exists" error of mkdir.
C9_NoAlreadyExistsError ==
    \A w \in Workers : err[w] # "FileExistsError"

\* C10 as stated: a file that exists is never written again, changed or
\* deleted.
C10_NeverWrittenAgain ==
    [][ \A p \in DOMAIN files :
            p \in DOMAIN files' /\ files'[p] = files[p] ]_vars

====
